---- MODULE Spec2Model ----
(***************************************************************************)
(* Model of src/index.js: an HTTP relay in front of the GitHub commit and  *)
(* compare API.  Two parts:                                                *)
(*   - parsePatch, the unified-diff hunk parser (specification SpecParse), *)
(*     run line by line as its forEach loop does;                          *)
(*   - the two route handlers and makeGitHubRequest (specification Spec),  *)
(*     one action per run-to-completion segment between two awaits.        *)
(* Text is a sequence of one-character strings, so that split, startsWith  *)
(* and the header regular expression are computed, not assumed.            *)
(***************************************************************************)
EXTENDS Integers, Sequences, FiniteSets, TLC

VARIABLES
    \* ---- parsePatch (src/index.js:86-111)
    patch,        \* the argument, a sequence of characters
    lines,        \* patch.split('\n')
    idx,          \* position of forEach in lines (next line to visit)
    hunks,        \* const hunks = []
    currentHunk,  \* null (<<>>) or <<hunk>>
    baseLine,
    headLine,
    ppc,          \* "split" | "loop" | "done"
    result,       \* the returned value, <<>> until parsePatch has returned
    \* ---- the route handlers (src/index.js:25-84), per request
    rpc,          \* "new" | "awaitCommit" | "awaitCompare" | "done"
    endpoint,     \* "none" until the request arrives, then "commit" | "diff"
    calls,        \* the upstream URLs the request has asked for, in order
    answers,      \* the upstream outcomes the request has received, in order
    settled,      \* what each makeGitHubRequest call of the request returned or threw
    responses     \* the HTTP responses sent for the request, in order

parseVars == <<patch, lines, idx, hunks, currentHunk, baseLine, headLine, ppc, result>>

serverVars == <<rpc, endpoint, calls, answers, settled, responses>>

vars == <<parseVars, serverVars>>

(***************************************************************************)
(* Bounds                                                                  *)
(***************************************************************************)
MaxLines == 4     \* lines of an input patch
NumReqs == 2      \* requests in flight together
MaxParents == 2   \* parents of an upstream commit
MaxFiles == 2     \* files of an upstream compare result

(***************************************************************************)
(* Optional values: JavaScript null / undefined is <<>>, a value v is <<v>> *)
(***************************************************************************)
Null == <<>>
Some(v) == <<v>>
IsPresent(o) == o # <<>>
Val(o) == o[1]

(***************************************************************************)
(* Text helpers                                                            *)
(***************************************************************************)
NL == "\n"

Digits == <<"0", "1", "2", "3", "4", "5", "6", "7", "8", "9">>

IsDigit(c) == \E d \in 1..10 : Digits[d] = c

DigitValue(c) == (CHOOSE d \in 1..10 : Digits[d] = c) - 1

\* String.prototype.startsWith
StartsWith(s, p) == Len(s) >= Len(p) /\ SubSeq(s, 1, Len(p)) = p

\* whether the literal p stands in s at position i
LiteralAt(s, i, p) == i + Len(p) - 1 <= Len(s) /\ SubSeq(s, i, i + Len(p) - 1) = p

\* length of the longest run of digits of s starting at position i (\d* , greedy)
RECURSIVE DigitRun(_, _)
DigitRun(s, i) ==
    IF i <= Len(s) /\ IsDigit(s[i]) THEN 1 + DigitRun(s, i + 1) ELSE 0

\* parseInt of a string of decimal digits
RECURSIVE ParseInt(_)
ParseInt(ds) ==
    IF ds = <<>> THEN 0
    ELSE 10 * ParseInt(SubSeq(ds, 1, Len(ds) - 1)) + DigitValue(ds[Len(ds)])

\* String.prototype.split('\n'): always at least one piece
RECURSIVE SplitFrom(_, _, _)
SplitFrom(s, i, cur) ==
    IF i > Len(s) THEN <<cur>>
    ELSE IF s[i] = NL THEN <<cur>> \o SplitFrom(s, i + 1, <<>>)
    ELSE SplitFrom(s, i + 1, Append(cur, s[i]))

Split(s) == SplitFrom(s, 1, <<>>)

\* Array.prototype.join('\n')
RECURSIVE JoinLines(_)
JoinLines(ls) ==
    IF ls = <<>> THEN <<>>
    ELSE IF Len(ls) = 1 THEN ls[1]
    ELSE ls[1] \o <<NL>> \o JoinLines(Tail(ls))

(***************************************************************************)
(* line.match(/^@@ -(\d+),?\d* \+(\d+),?\d* @@/)                            *)
(* Null when the line does not match, else <<[base, head]>> holding the    *)
(* two captured digit strings.  Each \d+ is followed by ",?\d*", so the    *)
(* greedy first capture takes the whole digit run and backtracking to a    *)
(* shorter capture reaches no position the greedy one does not.            *)
(***************************************************************************)
OptComma(s, i) == IF i <= Len(s) /\ s[i] = "," THEN 1 ELSE 0

HeaderMatch(line) ==
    IF ~LiteralAt(line, 1, <<"@", "@", " ", "-">>) THEN Null
    ELSE
      LET b1 == 5
          n1 == DigitRun(line, b1)
          c1 == b1 + n1
          t1 == c1 + OptComma(line, c1)
          e1 == t1 + DigitRun(line, t1)
      IN  IF n1 = 0 \/ ~LiteralAt(line, e1, <<" ", "+">>) THEN Null
          ELSE
            LET b2 == e1 + 2
                n2 == DigitRun(line, b2)
                c2 == b2 + n2
                t2 == c2 + OptComma(line, c2)
                e2 == t2 + DigitRun(line, t2)
            IN  IF n2 = 0 \/ ~LiteralAt(line, e2, <<" ", "@", "@">>) THEN Null
                ELSE Some([base |-> SubSeq(line, b1, c1 - 1),
                           head |-> SubSeq(line, b2, c2 - 1)])

(***************************************************************************)
(* One visit of the forEach callback (src/index.js:92-107), as a function  *)
(* of the loop state st = [hunks, currentHunk, baseLine, headLine].        *)
(***************************************************************************)
\* mutant: a matching header does not reset the counters
HeaderStep_NoReset(st, line) ==
    [hunks       |-> IF IsPresent(st.currentHunk)
                     THEN Append(st.hunks, Val(st.currentHunk))
                     ELSE st.hunks,
     currentHunk |-> Some([header |-> line, lines |-> <<>>]),
     baseLine    |-> st.baseLine,
     headLine    |-> st.headLine]

\* mutant: the two captures are assigned the wrong way round
HeaderStep_Swapped(st, line) ==
    LET match == HeaderMatch(line)
    IN  [hunks       |-> IF IsPresent(st.currentHunk)
                         THEN Append(st.hunks, Val(st.currentHunk))
                         ELSE st.hunks,
         currentHunk |-> Some([header |-> line, lines |-> <<>>]),
         baseLine    |-> IF IsPresent(match) THEN ParseInt(Val(match).head) ELSE st.baseLine,
         headLine    |-> IF IsPresent(match) THEN ParseInt(Val(match).base) ELSE st.headLine]

\* mutant: a header that does not match sets both counters to 0
HeaderStep_ResetOnMismatch(st, line) ==
    LET match == HeaderMatch(line)
    IN  [hunks       |-> IF IsPresent(st.currentHunk)
                         THEN Append(st.hunks, Val(st.currentHunk))
                         ELSE st.hunks,
         currentHunk |-> Some([header |-> line, lines |-> <<>>]),
         baseLine    |-> IF IsPresent(match) THEN ParseInt(Val(match).base) ELSE 0,
         headLine    |-> IF IsPresent(match) THEN ParseInt(Val(match).head) ELSE 0]

HeaderStep(st, line) ==
    LET match == HeaderMatch(line)
    IN  [hunks       |-> IF IsPresent(st.currentHunk)
                         THEN Append(st.hunks, Val(st.currentHunk))
                         ELSE st.hunks,
         currentHunk |-> Some([header |-> line, lines |-> <<>>]),
         baseLine    |-> IF IsPresent(match) THEN ParseInt(Val(match).base) ELSE st.baseLine,
         headLine    |-> IF IsPresent(match) THEN ParseInt(Val(match).head) ELSE st.headLine]

\* mutant: no branch for '+', an added line is numbered as a context line
LineNumbers_PlusAsContext(st, line) ==
    IF StartsWith(line, <<"-">>) THEN
        [baseLineNumber |-> Some(st.baseLine), headLineNumber |-> Null,
         baseLine |-> st.baseLine + 1, headLine |-> st.headLine]
    ELSE
        [baseLineNumber |-> Some(st.baseLine), headLineNumber |-> Some(st.headLine),
         baseLine |-> st.baseLine + 1, headLine |-> st.headLine + 1]

\* mutant: a context line advances the base counter only
LineNumbers_ContextBaseOnly(st, line) ==
    IF StartsWith(line, <<"-">>) THEN
        [baseLineNumber |-> Some(st.baseLine), headLineNumber |-> Null,
         baseLine |-> st.baseLine + 1, headLine |-> st.headLine]
    ELSE IF StartsWith(line, <<"+">>) THEN
        [baseLineNumber |-> Null, headLineNumber |-> Some(st.headLine),
         baseLine |-> st.baseLine, headLine |-> st.headLine + 1]
    ELSE
        [baseLineNumber |-> Some(st.baseLine), headLineNumber |-> Some(st.headLine),
         baseLine |-> st.baseLine + 1, headLine |-> st.headLine]

LineNumbers(st, line) ==
    IF StartsWith(line, <<"-">>) THEN
        [baseLineNumber |-> Some(st.baseLine), headLineNumber |-> Null,
         baseLine |-> st.baseLine + 1, headLine |-> st.headLine]
    ELSE IF StartsWith(line, <<"+">>) THEN
        [baseLineNumber |-> Null, headLineNumber |-> Some(st.headLine),
         baseLine |-> st.baseLine, headLine |-> st.headLine + 1]
    ELSE
        [baseLineNumber |-> Some(st.baseLine), headLineNumber |-> Some(st.headLine),
         baseLine |-> st.baseLine + 1, headLine |-> st.headLine + 1]

BodyStep(st, line) ==
    LET n   == LineNumbers(st, line)
        cur == Val(st.currentHunk)
        rec == [baseLineNumber |-> n.baseLineNumber,
                headLineNumber |-> n.headLineNumber,
                content        |-> line]
    IN  [hunks       |-> st.hunks,
         currentHunk |-> Some([header |-> cur.header, lines |-> Append(cur.lines, rec)]),
         baseLine    |-> n.baseLine,
         headLine    |-> n.headLine]

IsHeaderLine(line) == StartsWith(line, <<"@", "@">>)

LineStep(st, line) ==
    IF IsHeaderLine(line) THEN HeaderStep(st, line)
    ELSE IF IsPresent(st.currentHunk) THEN BodyStep(st, line)
    ELSE st

\* mutant: the hunk open at the end of input is not appended
Finish_DropsOpen(st) == st.hunks

\* src/index.js:109-110
Finish(st) ==
    IF IsPresent(st.currentHunk) THEN Append(st.hunks, Val(st.currentHunk)) ELSE st.hunks

ParseStart == [hunks |-> <<>>, currentHunk |-> Null, baseLine |-> 0, headLine |-> 0]

RECURSIVE ForEach(_, _, _)
ForEach(st, ls, i) ==
    IF i > Len(ls) THEN st ELSE ForEach(LineStep(st, ls[i]), ls, i + 1)

\* parsePatch as a function of its argument
parsePatch(p) == Finish(ForEach(ParseStart, Split(p), 1))

(***************************************************************************)
(* Input patches: up to MaxLines lines drawn from PatchLines and joined    *)
(* with newlines.                                                          *)
(***************************************************************************)
HeaderA    == <<"@", "@", " ", "-", "1", ",", "2", " ", "+", "3", " ", "@", "@">>
HeaderB    == <<"@", "@", " ", "-", "1", "0", " ", "+", "0", "7", ",", "3", " ", "@", "@", " ", "f">>
HeaderBad  == <<"@", "@", " ", "-", "4", " ", "+", "x", " ", "@", "@">>
HeaderBare == <<"@", "@">>

PatchLines ==
    {HeaderA, HeaderB, HeaderBad, HeaderBare,
     <<"-", "a">>, <<"+", "b">>, <<" ", "c">>, <<>>}

RECURSIVE SeqsUpTo(_, _)
SeqsUpTo(S, n) ==
    IF n = 0 THEN {<<>>}
    ELSE LET shorter == SeqsUpTo(S, n - 1)
         IN  shorter \cup {Append(s, x) : s \in shorter, x \in S}

Patches == {JoinLines(ls) : ls \in SeqsUpTo(PatchLines, MaxLines)}

(***************************************************************************)
(* The upstream API as the handlers see it                                 *)
(***************************************************************************)
Reqs == 1..NumReqs

Owner == "octo"
Repository == "relay"
\* the :oid of request r
OidOf(r) == <<"c1", "c2", "c3", "c4">>[r]

Shas == {"p1", "p2"}

\* `/repos/${owner}/${repository}/commits/${oid}`
CommitUrl(owner, repository, oid) ==
    [api |-> "commits", owner |-> owner, repository |-> repository, ref |-> oid]

\* `/repos/${owner}/${repository}/compare/${parentOid}...${oid}`
CompareUrl(owner, repository, parentOid, oid) ==
    [api |-> "compare", owner |-> owner, repository |-> repository,
     ref |-> [base |-> parentOid, head |-> oid]]

Remaining == "x-ratelimit-remaining"
Reset == "x-ratelimit-reset"

NoHeaders == <<>>
RateHeaders(remaining, reset) == (Remaining :> remaining) @@ (Reset :> reset)

\* headers[name]: undefined when the header was not sent
Header(headers, name) == IF name \in DOMAIN headers THEN Some(headers[name]) ELSE Null

\* a rejected axios call: error.response is absent when no response arrived
HttpError(status, headers, message) ==
    [ok |-> FALSE,
     error |-> [message |-> message,
                response |-> Some([status |-> status, headers |-> headers])]]

NetworkError ==
    [ok |-> FALSE, error |-> [message |-> "Network Error", response |-> Null]]

\* GitHub sends its x-ratelimit-* headers together
Failures ==
    {NetworkError}
    \cup {HttpError(403, h, "Request failed with status code 403") :
            h \in {NoHeaders, RateHeaders("0", "1700000000"),
                   RateHeaders("0", "1700003600"), RateHeaders("57", "1700000000")}}
    \cup {HttpError(404, h, "Request failed with status code 404") :
            h \in {NoHeaders, RateHeaders("0", "1700000000")}}
    \cup {HttpError(429, RateHeaders("0", "1700000000"),
                    "Request failed with status code 429")}

\* a resolved axios call: the response object {status, headers, data}
Success(data) ==
    [ok |-> TRUE,
     response |-> [status |-> 200, headers |-> RateHeaders("57", "1700000000"),
                   data |-> data]]

\* sequences without repetition of at most n elements of S
RECURSIVE ListsUpTo(_, _)
ListsUpTo(S, n) ==
    IF n = 0 THEN {<<>>}
    ELSE LET shorter == ListsUpTo(S, n - 1)
             Fresh(s) == {x \in S : \A i \in 1..Len(s) : s[i] # x}
         IN  shorter \cup UNION {{Append(s, x) : x \in Fresh(s)} : s \in shorter}

Signature == [name |-> "Ada", email |-> "ada@example.org", date |-> "2024-01-01T00:00:00Z"]

\* {sha, commit:{message, author, committer}, parents:[{sha}]}
CommitData(oid, parentShas) ==
    [sha |-> oid,
     commit |-> [message |-> "fix", author |-> Signature, committer |-> Signature],
     parents |-> [i \in 1..Len(parentShas) |-> [sha |-> parentShas[i]]]]

SamplePatch == JoinLines(<<HeaderA, <<" ", "c">>, <<"+", "b">>>>)

\* files of a compare result: {status, filename, patch?}
ChangedFiles ==
    {[status |-> <<"m", "o", "d", "i", "f", "i", "e", "d">>, filename |-> "src/a.js",
      patch |-> Some(SamplePatch)],
     [status |-> <<"a", "d", "d", "e", "d">>, filename |-> "logo.png",
      patch |-> Null]}

CompareData(files) == [files |-> files]

\* what upstream may answer to a call
Outcomes(url) ==
    Failures \cup
    (IF url.api = "commits"
     THEN {Success(CommitData(url.ref, ps)) : ps \in ListsUpTo(Shas, MaxParents)}
     ELSE {Success(CompareData(fs)) : fs \in ListsUpTo(ChangedFiles, MaxFiles)})

(***************************************************************************)
(* makeGitHubRequest (src/index.js:25-34), as a function of the outcome of *)
(* githubApi.get(url): it returns a value or throws.                       *)
(***************************************************************************)
RateLimitMessage == "GitHub API rate limit exceeded"

\* mutant: the remaining-quota header is not looked at
IsRateLimited_AnyForbidden(error) ==
    IsPresent(error.response) /\ Val(error.response).status = 403

\* mutant: the status is not looked at
IsRateLimited_AnyStatus(error) ==
    /\ IsPresent(error.response)
    /\ Header(Val(error.response).headers, Remaining) = Some("0")

IsRateLimited(error) ==
    /\ IsPresent(error.response)
    /\ Val(error.response).status = 403
    /\ Header(Val(error.response).headers, Remaining) = Some("0")

makeGitHubRequest(outcome) ==
    IF outcome.ok THEN [threw |-> FALSE, value |-> outcome.response]
    ELSE IF IsRateLimited(outcome.error)
    THEN [threw |-> FALSE,
          value |-> [error |-> RateLimitMessage,
                     retry_after |-> Header(Val(outcome.error.response).headers, Reset)]]
    ELSE [threw |-> TRUE, error |-> outcome.error]

(***************************************************************************)
(* Responses: res.status(code).json(body).  A JSON body is an object       *)
(* (its fields) or an array (its items); JSON.stringify leaves out a field *)
(* whose value is undefined.                                               *)
(***************************************************************************)
JsonObject(fields) == [type |-> "object", fields |-> fields]
JsonArray(items) == [type |-> "array", items |-> items]

HasField(body, f) == body.type = "object" /\ f \in DOMAIN body.fields

\* res.status(429).json(response) of a value returned by the rate-limit branch
SignalJson(value) ==
    IF IsPresent(value.retry_after)
    THEN JsonObject([error |-> value.error, retry_after |-> Val(value.retry_after)])
    ELSE JsonObject([error |-> value.error])

\* if (response.error)
HasError(value) == "error" \in DOMAIN value

\* mutant: a failure without upstream status is answered with 200
StatusOr500_Default200(error) ==
    IF IsPresent(error.response) /\ Val(error.response).status # 0
    THEN Val(error.response).status
    ELSE 200

\* mutant: the upstream status is not forwarded
StatusOr500_Always500(error) == 500

\* error.response?.status || 500
StatusOr500(error) ==
    IF IsPresent(error.response) /\ Val(error.response).status # 0
    THEN Val(error.response).status
    ELSE 500

\* the catch blocks, src/index.js:55 and :82
ErrorResponse(message, error) ==
    [status |-> StatusOr500(error),
     body |-> JsonObject([message |-> message, error |-> error.message])]

\* mutant: the rate-limit signal is sent with the upstream status
RateLimitResponse_Forbidden(value) == [status |-> 403, body |-> SignalJson(value)]

RateLimitResponse(value) == [status |-> 429, body |-> SignalJson(value)]

\* mutant: the parents are listed last first
FormatCommit_ParentsReversed(commitData) ==
    [oid |-> commitData.sha,
     message |-> commitData.commit.message,
     author |-> commitData.commit.author,
     committer |-> commitData.commit.committer,
     parents |-> [i \in 1..Len(commitData.parents) |->
                    [oid |-> commitData.parents[Len(commitData.parents) + 1 - i].sha]]]

\* src/index.js:45-53
FormatCommit(commitData) ==
    [oid |-> commitData.sha,
     message |-> commitData.commit.message,
     author |-> commitData.commit.author,
     committer |-> commitData.commit.committer,
     parents |-> [i \in 1..Len(commitData.parents) |-> [oid |-> commitData.parents[i].sha]]]

LowerCase == <<"a", "b", "c", "d", "e", "f", "g", "h", "i", "j", "k", "l", "m",
               "n", "o", "p", "q", "r", "s", "t", "u", "v", "w", "x", "y", "z">>
UpperCase == <<"A", "B", "C", "D", "E", "F", "G", "H", "I", "J", "K", "L", "M",
               "N", "O", "P", "Q", "R", "S", "T", "U", "V", "W", "X", "Y", "Z">>

\* String.prototype.toUpperCase
ToUpperCase(s) ==
    [i \in 1..Len(s) |->
        IF \E k \in 1..26 : LowerCase[k] = s[i]
        THEN UpperCase[CHOOSE k \in 1..26 : LowerCase[k] = s[i]]
        ELSE s[i]]

\* mutant: the patch text is not parsed
FormatFile_NoHunks(file) ==
    [changeKind |-> ToUpperCase(file.status),
     headFile |-> [path |-> file.filename],
     baseFile |-> [path |-> file.filename],
     hunks |-> <<>>]

\* src/index.js:73-78
FormatFile(file) ==
    [changeKind |-> ToUpperCase(file.status),
     headFile |-> [path |-> file.filename],
     baseFile |-> [path |-> file.filename],
     hunks |-> IF IsPresent(file.patch) /\ Val(file.patch) # <<>>
               THEN parsePatch(Val(file.patch))
               ELSE <<>>]

\* mutant: the last listed parent is taken
FirstParent_Last(data) ==
    IF Len(data.parents) >= 1 THEN Some(data.parents[Len(data.parents)].sha) ELSE Null

\* commitResponse.data.parents?.[0]?.sha
FirstParent(data) ==
    IF Len(data.parents) >= 1 THEN Some(data.parents[1].sha) ELSE Null

\* !parentOid
NoParent(parentOid) == ~IsPresent(parentOid) \/ Val(parentOid) = ""

(***************************************************************************)
(* The handlers.  Each gives what the segment of the handler that runs     *)
(* once makeGitHubRequest has returned or thrown (made) does: send a       *)
(* response, or ask upstream for a URL.                                    *)
(***************************************************************************)
Respond(response) == [do |-> "respond", response |-> response]
Request(url) == [do |-> "request", url |-> url]

\* GET /repositories/:owner/:repository/commits/:oid, src/index.js:40-56
CommitHandler(made) ==
        IF made.threw
        THEN Respond(ErrorResponse("Error fetching commit details", made.error))
        ELSE IF HasError(made.value)
        THEN Respond(RateLimitResponse(made.value))
        ELSE Respond([status |-> 200,
                      body |-> JsonArray(<<FormatCommit(made.value.data)>>)])

\* mutant: no check of parentOid; the template string renders undefined
DiffHandlerCommit_NoParentCheck(owner, repository, oid, made) ==
        IF made.threw
        THEN Respond(ErrorResponse("Error fetching commit diff", made.error))
        ELSE IF HasError(made.value)
        THEN Respond(RateLimitResponse(made.value))
        ELSE LET parentOid == FirstParent(made.value.data)
             IN  Request(CompareUrl(owner, repository,
                                    IF IsPresent(parentOid) THEN Val(parentOid) ELSE "undefined",
                                    oid))

\* mutant: a rate-limited commit lookup is asked for again
DiffHandlerCommit_RetryOnLimit(owner, repository, oid, made) ==
        IF made.threw
        THEN Respond(ErrorResponse("Error fetching commit diff", made.error))
        ELSE IF HasError(made.value)
        THEN Request(CommitUrl(owner, repository, oid))
        ELSE LET parentOid == FirstParent(made.value.data)
             IN  IF NoParent(parentOid)
                 THEN Respond([status |-> 400,
                               body |-> JsonObject([message |-> "No parent commit found"])])
                 ELSE Request(CompareUrl(owner, repository, Val(parentOid), oid))

\* GET .../commits/:oid/diff, src/index.js:63-68 and :81-83
DiffHandlerCommit(owner, repository, oid, made) ==
        IF made.threw
        THEN Respond(ErrorResponse("Error fetching commit diff", made.error))
        ELSE IF HasError(made.value)
        THEN Respond(RateLimitResponse(made.value))
        ELSE LET parentOid == FirstParent(made.value.data)
             IN  IF NoParent(parentOid)
                 THEN Respond([status |-> 400,
                               body |-> JsonObject([message |-> "No parent commit found"])])
                 ELSE Request(CompareUrl(owner, repository, Val(parentOid), oid))

\* GET .../commits/:oid/diff, src/index.js:70-83
DiffHandlerCompare(made) ==
        IF made.threw
        THEN Respond(ErrorResponse("Error fetching commit diff", made.error))
        ELSE IF HasError(made.value)
        THEN Respond(RateLimitResponse(made.value))
        ELSE LET files == made.value.data.files
             IN  Respond([status |-> 200,
                          body |-> JsonArray([i \in 1..Len(files) |-> FormatFile(files[i])])])

(***************************************************************************)
(* The server as a state machine                                           *)
(***************************************************************************)
\* parsePatch not running: its variables as src/index.js:87-90 sets them
ParseIdle ==
    /\ lines = <<>> /\ idx = 1 /\ hunks = <<>> /\ currentHunk = Null
    /\ baseLine = 0 /\ headLine = 0 /\ result = Null

ServerIdle ==
    /\ rpc = [r \in Reqs |-> "new"]
    /\ endpoint = [r \in Reqs |-> "none"]
    /\ calls = [r \in Reqs |-> <<>>]
    /\ answers = [r \in Reqs |-> <<>>]
    /\ settled = [r \in Reqs |-> <<>>]
    /\ responses = [r \in Reqs |-> <<>>]

Init ==
    /\ ServerIdle
    /\ patch = <<>> /\ ppc = "off" /\ ParseIdle

\* mutant: the handlers share one response object, that of request 1
Continue_SharedResponse(r, outcome, made, step, awaiting) ==
    /\ answers' = [answers EXCEPT ![r] = Append(@, outcome)]
    /\ settled' = [settled EXCEPT ![r] = Append(@, made)]
    /\ IF step.do = "respond"
       THEN /\ responses' = [responses EXCEPT ![1] = Append(@, step.response)]
            /\ rpc' = [rpc EXCEPT ![r] = "done"]
            /\ UNCHANGED calls
       ELSE /\ calls' = [calls EXCEPT ![r] = Append(@, step.url)]
            /\ rpc' = [rpc EXCEPT ![r] = awaiting]
            /\ UNCHANGED responses
    /\ UNCHANGED endpoint
    /\ UNCHANGED parseVars

\* mutant: a thrown error is caught and no response is sent
Continue_SwallowsError(r, outcome, made, step, awaiting) ==
    /\ answers' = [answers EXCEPT ![r] = Append(@, outcome)]
    /\ settled' = [settled EXCEPT ![r] = Append(@, made)]
    /\ IF step.do = "respond"
       THEN /\ responses' = IF made.threw THEN responses
                            ELSE [responses EXCEPT ![r] = Append(@, step.response)]
            /\ rpc' = [rpc EXCEPT ![r] = "done"]
            /\ UNCHANGED calls
       ELSE /\ calls' = [calls EXCEPT ![r] = Append(@, step.url)]
            /\ rpc' = [rpc EXCEPT ![r] = awaiting]
            /\ UNCHANGED responses
    /\ UNCHANGED endpoint
    /\ UNCHANGED parseVars

\* the pending call of request r settles with outcome: makeGitHubRequest returns
\* or throws (made) and the handler runs on to its response or its next await
Continue(r, outcome, made, step, awaiting) ==
    /\ answers' = [answers EXCEPT ![r] = Append(@, outcome)]
    /\ settled' = [settled EXCEPT ![r] = Append(@, made)]
    /\ IF step.do = "respond"
       THEN /\ responses' = [responses EXCEPT ![r] = Append(@, step.response)]
            /\ rpc' = [rpc EXCEPT ![r] = "done"]
            /\ UNCHANGED calls
       ELSE /\ calls' = [calls EXCEPT ![r] = Append(@, step.url)]
            /\ rpc' = [rpc EXCEPT ![r] = awaiting]
            /\ UNCHANGED responses
    /\ UNCHANGED endpoint
    /\ UNCHANGED parseVars

\* the handler runs up to its first await
Begin(r, kind) ==
    /\ endpoint' = [endpoint EXCEPT ![r] = kind]
    /\ calls' = [calls EXCEPT ![r] = Append(@, CommitUrl(Owner, Repository, OidOf(r)))]
    /\ rpc' = [rpc EXCEPT ![r] = "awaitCommit"]
    /\ UNCHANGED <<answers, settled, responses>>
    /\ UNCHANGED parseVars

PendingUrl(r) == calls[r][Len(calls[r])]

\* a request for a commit arrives: src/index.js:37-41
CommitRequest(r) ==
    /\ rpc[r] = "new"
    /\ Begin(r, "commit")

\* a request for a diff arrives: src/index.js:60-64
DiffRequest(r) ==
    /\ rpc[r] = "new"
    /\ Begin(r, "diff")

\* the commit endpoint's lookup settles: src/index.js:41-56
CommitLookupDone(r) ==
    /\ rpc[r] = "awaitCommit" /\ endpoint[r] = "commit"
    /\ \E outcome \in Outcomes(PendingUrl(r)) :
         LET made == makeGitHubRequest(outcome)
         IN  Continue(r, outcome, made, CommitHandler(made), "done")

\* the diff endpoint's commit lookup settles: src/index.js:64-70
DiffCommitLookupDone(r) ==
    /\ rpc[r] = "awaitCommit" /\ endpoint[r] = "diff"
    /\ \E outcome \in Outcomes(PendingUrl(r)) :
         LET made == makeGitHubRequest(outcome)
         IN  Continue(r, outcome, made,
                      DiffHandlerCommit(Owner, Repository, OidOf(r), made), "awaitCompare")

\* the diff endpoint's compare lookup settles: src/index.js:70-83
DiffCompareDone(r) ==
    /\ rpc[r] = "awaitCompare"
    /\ \E outcome \in Outcomes(PendingUrl(r)) :
         LET made == makeGitHubRequest(outcome)
         IN  Continue(r, outcome, made, DiffHandlerCompare(made), "done")

Next ==
    \E r \in Reqs :
        \/ CommitRequest(r)
        \/ DiffRequest(r)
        \/ CommitLookupDone(r)
        \/ DiffCommitLookupDone(r)
        \/ DiffCompareDone(r)

Spec == Init /\ [][Next]_vars

\* every upstream call settles: the await of src/index.js:27 resumes
SpecLive ==
    /\ Spec
    /\ \A r \in Reqs :
         /\ WF_vars(CommitLookupDone(r))
         /\ WF_vars(DiffCommitLookupDone(r))
         /\ WF_vars(DiffCompareDone(r))

(***************************************************************************)
(* Properties of the handlers (checked under Spec)                         *)
(***************************************************************************)
\* the outcome is a failure with status 403 and remaining-quota header "0"
QuotaExhausted(o) ==
    /\ ~o.ok
    /\ IsPresent(o.error.response)
    /\ Val(o.error.response).status = 403
    /\ Remaining \in DOMAIN Val(o.error.response).headers
    /\ Val(o.error.response).headers[Remaining] = "0"

Done(r) == rpc[r] = "done"
Response(r) == responses[r][1]
LastAnswer(r) == answers[r][Len(answers[r])]

\* C1: for every upstream outcome a request has received, makeGitHubRequest
\* (1) returned the upstream response unchanged on success, (2) returned, without
\* throwing, {error, retry_after = the upstream reset header} on a 403 whose
\* remaining-quota header is "0", (3) threw the original error on any other failure.
C1_GuardContract ==
    \A r \in Reqs : \A k \in 1..Len(answers[r]) :
        LET o == answers[r][k]
            m == settled[r][k]
        IN  /\ o.ok => ~m.threw /\ m.value = o.response
            /\ (~o.ok /\ QuotaExhausted(o)) =>
                 /\ ~m.threw
                 /\ m.value = [error |-> RateLimitMessage,
                               retry_after |-> Header(Val(o.error.response).headers, Reset)]
            /\ (~o.ok /\ ~QuotaExhausted(o)) => m.threw /\ m.error = o.error

\* the requests have together received a success, an exhausted quota and a 403
\* with quota left
C1_Witness ==
    LET got == UNION {{answers[r][k] : k \in 1..Len(answers[r])} : r \in Reqs}
    IN  /\ \E o \in got : o.ok
        /\ \E o \in got : QuotaExhausted(o)
        /\ \E o \in got : ~o.ok /\ ~QuotaExhausted(o) /\ IsPresent(o.error.response)
                          /\ Val(o.error.response).status = 403

\* C2: on both endpoints, once any upstream call of a request is answered with a
\* 403 whose remaining-quota header is "0", the request is answered with 429 and
\* a body with the fields error and retry_after, and that call is its last one.
C2_RateLimitedIs429 ==
    \A r \in Reqs : \A k \in 1..Len(answers[r]) :
        QuotaExhausted(answers[r][k]) =>
            /\ Done(r)
            /\ Len(responses[r]) = 1
            /\ Response(r).status = 429
            /\ HasField(Response(r).body, "error")
            /\ HasField(Response(r).body, "retry_after")
            /\ Len(calls[r]) = k

\* a commit request stopped by an exhausted quota, and a diff request stopped
\* by one at its compare lookup
C2_Witness ==
    \E r1, r2 \in Reqs :
        /\ endpoint[r1] = "commit" /\ Done(r1) /\ QuotaExhausted(answers[r1][1])
        /\ endpoint[r2] = "diff" /\ Done(r2) /\ Len(answers[r2]) = 2
        /\ QuotaExhausted(answers[r2][2])

\* the commit lookup of the diff request r succeeded with no parent
MissingParent(r) ==
    /\ endpoint[r] = "diff"
    /\ Len(answers[r]) >= 1
    /\ answers[r][1].ok
    /\ answers[r][1].response.data.parents = <<>>

\* the request ended on a failure path: its last upstream call failed, or it is a
\* diff request whose commit has no parent
Failed(r) == Done(r) /\ (~LastAnswer(r).ok \/ MissingParent(r))

IsSuccessStatus(status) == status \in 200..299

\* C3 as stated: every failure path of both endpoints answers with a non-2xx
\* status and a JSON body that has a message field.
C3_Original ==
    \A r \in Reqs : Failed(r) =>
        /\ ~IsSuccessStatus(Response(r).status)
        /\ HasField(Response(r).body, "message")

\* C3 amended: every failure path answers with a non-2xx status and a JSON
\* object; the body has a message field on the other-upstream-failure and the
\* missing-parent paths, and on the rate-limited path it has the fields error
\* and retry_after and no message field.
C3_FailureBodies ==
    \A r \in Reqs : Failed(r) =>
        /\ Len(responses[r]) = 1
        /\ ~IsSuccessStatus(Response(r).status)
        /\ Response(r).body.type = "object"
        /\ IF QuotaExhausted(LastAnswer(r))
           THEN DOMAIN Response(r).body.fields = {"error", "retry_after"}
           ELSE HasField(Response(r).body, "message")

\* one request ended rate-limited and another on a failure without response
C3_Witness ==
    \E r1, r2 \in Reqs :
        /\ Failed(r1) /\ QuotaExhausted(LastAnswer(r1))
        /\ Failed(r2) /\ ~LastAnswer(r2).ok /\ ~IsPresent(LastAnswer(r2).error.response)

\* C4: a diff request whose commit lookup succeeds with zero parents is answered
\* with 400 and exactly {message: "No parent commit found"} (no error field), and
\* its only upstream call is the commit lookup.
C4_MissingParent ==
    \A r \in Reqs : MissingParent(r) =>
        /\ Done(r)
        /\ responses[r] = <<[status |-> 400,
                             body |-> JsonObject([message |-> "No parent commit found"])]>>
        /\ Len(calls[r]) = 1
        /\ calls[r][1].api = "commits"

C4_Witness == \E r \in Reqs : MissingParent(r) /\ Done(r)

\* C5: on both endpoints a request whose last upstream call failed otherwise
\* than with an exhausted quota is answered with the upstream status, or 500
\* when the failure has no response, and a body {message, error} whose error is
\* the failure's text; so a 403 with quota left is answered with 403.
C5_UpstreamFailure ==
    \A r \in Reqs :
        (Done(r) /\ ~LastAnswer(r).ok /\ ~QuotaExhausted(LastAnswer(r))) =>
            LET e == LastAnswer(r).error
            IN  /\ Len(responses[r]) = 1
                /\ Response(r).status =
                     (IF IsPresent(e.response) THEN Val(e.response).status ELSE 500)
                /\ Response(r).body.type = "object"
                /\ DOMAIN Response(r).body.fields = {"message", "error"}
                /\ Response(r).body.fields.error = e.message
                /\ Response(r).body.fields.message \in
                     {"Error fetching commit details", "Error fetching commit diff"}

\* a commit request answered 403 for a 403 with quota left, and a diff request
\* answered 500 for a compare lookup that got no response
C5_Witness ==
    \E r1, r2 \in Reqs :
        /\ endpoint[r1] = "commit" /\ Done(r1) /\ ~LastAnswer(r1).ok
        /\ ~QuotaExhausted(LastAnswer(r1)) /\ Response(r1).status = 403
        /\ endpoint[r2] = "diff" /\ Done(r2) /\ Len(answers[r2]) = 2
        /\ ~LastAnswer(r2).ok /\ ~IsPresent(LastAnswer(r2).error.response)
        /\ Response(r2).status = 500

\* C11: a diff request asks upstream for its commit first and for at most one
\* URL more; the second is asked only once the commit lookup has succeeded with
\* a parent, and it is the compare of the first listed parent with the
\* requested commit, whatever further parents are listed.
C11_DiffCallOrder ==
    \A r \in Reqs : endpoint[r] = "diff" =>
        /\ Len(calls[r]) \in 1..2
        /\ calls[r][1] = CommitUrl(Owner, Repository, OidOf(r))
        /\ Len(calls[r]) = 2 =>
             /\ Len(answers[r]) >= 1
             /\ answers[r][1].ok
             /\ Len(answers[r][1].response.data.parents) >= 1
             /\ calls[r][2] =
                  [api |-> "compare", owner |-> Owner, repository |-> Repository,
                   ref |-> [base |-> answers[r][1].response.data.parents[1].sha,
                            head |-> OidOf(r)]]

\* a diff request has asked for its compare after a commit with two parents
C11_Witness ==
    \E r \in Reqs :
        /\ endpoint[r] = "diff"
        /\ Len(calls[r]) = 2
        /\ Len(answers[r][1].response.data.parents) = 2

C13_CommitRecord ==
    \A r \in Reqs :
        (endpoint[r] = "commit" /\ Len(answers[r]) = 1 /\ answers[r][1].ok) =>
            LET data == answers[r][1].response.data
            IN  /\ Done(r)
                /\ Len(responses[r]) = 1
                /\ Response(r).status = 200
                /\ Response(r).body.type = "array"
                /\ Len(Response(r).body.items) = 1
                /\ LET rec == Response(r).body.items[1]
                   IN  /\ rec.oid = data.sha
                       /\ rec.message = data.commit.message
                       /\ rec.author = data.commit.author
                       /\ rec.committer = data.commit.committer
                       /\ Len(rec.parents) = Len(data.parents)
                       /\ \A i \in 1..Len(data.parents) :
                            rec.parents[i] = [oid |-> data.parents[i].sha]

\* a commit request answered for a commit with two parents
C13_Witness ==
    \E r \in Reqs :
        /\ endpoint[r] = "commit" /\ Done(r) /\ answers[r][1].ok
        /\ Len(answers[r][1].response.data.parents) = 2

\* C14: a diff request whose two lookups succeed is answered with 200 and one
\* FileDiff per file of the compare result, in the same order; the hunks of a
\* FileDiff are parsePatch of the file's patch text when the text is present
\* and the empty sequence when it is absent, and its head and base paths are
\* both the file's filename.
C14_FileDiffs ==
    \A r \in Reqs :
        (endpoint[r] = "diff" /\ Len(answers[r]) = 2 /\ answers[r][2].ok) =>
            LET files == answers[r][2].response.data.files
            IN  /\ Done(r)
                /\ Len(responses[r]) = 1
                /\ Response(r).status = 200
                /\ Response(r).body.type = "array"
                /\ Len(Response(r).body.items) = Len(files)
                /\ \A i \in 1..Len(files) :
                     LET diff == Response(r).body.items[i]
                     IN  /\ diff.hunks = (IF IsPresent(files[i].patch)
                                          THEN parsePatch(Val(files[i].patch))
                                          ELSE <<>>)
                         /\ diff.headFile.path = files[i].filename
                         /\ diff.baseFile.path = files[i].filename

\* a diff request answered for two files, one with a patch that has a hunk and
\* one without patch text
C14_Witness ==
    \E r \in Reqs :
        /\ endpoint[r] = "diff" /\ Done(r) /\ Len(answers[r]) = 2 /\ answers[r][2].ok
        /\ Len(Response(r).body.items) = 2
        /\ \E i, j \in 1..2 :
             /\ Response(r).body.items[i].hunks # <<>>
             /\ ~IsPresent(answers[r][2].response.data.files[j].patch)

\* what a request of the given endpoint and oid does when it is handled alone
\* and receives the answers as: its upstream calls and its responses
Alone(kind, oid, as) ==
    LET first == CommitUrl(Owner, Repository, oid)
    IN  IF as = <<>> THEN [calls |-> <<first>>, responses |-> <<>>]
        ELSE IF kind = "commit"
        THEN [calls |-> <<first>>,
              responses |-> <<CommitHandler(makeGitHubRequest(as[1])).response>>]
        ELSE LET step == DiffHandlerCommit(Owner, Repository, oid, makeGitHubRequest(as[1]))
             IN  IF step.do = "respond"
                 THEN [calls |-> <<first>>, responses |-> <<step.response>>]
                 ELSE IF Len(as) = 1
                 THEN [calls |-> <<first, step.url>>, responses |-> <<>>]
                 ELSE [calls |-> <<first, step.url>>,
                       responses |-> <<DiffHandlerCompare(makeGitHubRequest(as[2])).response>>]

\* C15: under every interleaving of the requests, the upstream calls and the
\* responses of each request are those it has when handled alone with the same
\* upstream answers, and a request that has not arrived has nothing.
C15_NoInterference ==
    \A r \in Reqs :
        IF rpc[r] = "new"
        THEN calls[r] = <<>> /\ answers[r] = <<>> /\ settled[r] = <<>> /\ responses[r] = <<>>
        ELSE /\ calls[r] = Alone(endpoint[r], OidOf(r), answers[r]).calls
             /\ responses[r] = Alone(endpoint[r], OidOf(r), answers[r]).responses
             /\ Len(settled[r]) = Len(answers[r])
             /\ \A k \in 1..Len(answers[r]) : settled[r][k] = makeGitHubRequest(answers[r][k])

\* a diff request answered after its compare lookup while another diff request
\* waits for its own compare lookup
C15_Witness ==
    \E r1, r2 \in Reqs :
        /\ r1 # r2
        /\ endpoint[r1] = "diff" /\ Done(r1) /\ Len(answers[r1]) = 2
        /\ rpc[r2] = "awaitCompare"

\* C17: a request never has more than one response, a finished request has
\* exactly one, and, every upstream call settling, a request that has arrived
\* is eventually finished.
C17_AnsweredOnce ==
    \A r \in Reqs :
        /\ [](Len(responses[r]) <= 1 /\ (Done(r) => Len(responses[r]) = 1))
        /\ (rpc[r] # "new") ~> Done(r)

\* requests finished on each path: rate-limited, missing parent, success, caught
\* failure
C17_Witness ==
    \E r1, r2 \in Reqs :
        /\ Done(r1) /\ Len(responses[r1]) = 1
        /\ Done(r2) /\ Len(responses[r2]) = 1
        /\ \/ QuotaExhausted(LastAnswer(r1)) /\ MissingParent(r2)
           \/ LastAnswer(r1).ok /\ Response(r1).status = 200
              /\ ~LastAnswer(r2).ok /\ ~QuotaExhausted(LastAnswer(r2))

\* C18: a response carries retry_after (so also: has status 429 with error and
\* retry_after) only if the last upstream call of its request failed with status
\* 403 and remaining-quota header "0"; a request whose last upstream call
\* succeeded is never answered with 429.
C18_SignalOnlyWhenExhausted ==
    \A r \in Reqs : Len(responses[r]) >= 1 =>
        /\ HasField(Response(r).body, "retry_after") => QuotaExhausted(LastAnswer(r))
        /\ (Response(r).status = 429 /\ HasField(Response(r).body, "error")
            /\ HasField(Response(r).body, "retry_after")) =>
               \E k \in 1..Len(answers[r]) : QuotaExhausted(answers[r][k])
        /\ LastAnswer(r).ok => Response(r).status # 429

\* a request answered 429 with the signal, and a request answered 429 with
\* {message, error} for an upstream 429 whose remaining-quota header is "0"
C18_Witness ==
    \E r1, r2 \in Reqs :
        /\ Done(r1) /\ QuotaExhausted(LastAnswer(r1)) /\ Response(r1).status = 429
        /\ Done(r2) /\ ~LastAnswer(r2).ok /\ ~QuotaExhausted(LastAnswer(r2))
        /\ Response(r2).status = 429 /\ ~HasField(Response(r2).body, "retry_after")

(***************************************************************************)
(* parsePatch as a state machine                                           *)
(***************************************************************************)
LoopState == [hunks |-> hunks, currentHunk |-> currentHunk,
              baseLine |-> baseLine, headLine |-> headLine]

InitParse ==
    /\ patch \in Patches
    /\ ppc = "split"
    /\ ParseIdle
    /\ ServerIdle

\* src/index.js:87-90
SplitPatch ==
    /\ ppc = "split"
    /\ lines' = Split(patch)
    /\ ppc' = "loop"
    /\ UNCHANGED <<patch, idx, hunks, currentHunk, baseLine, headLine, result>>
    /\ UNCHANGED serverVars

SetLoop(st) ==
    /\ hunks' = st.hunks
    /\ currentHunk' = st.currentHunk
    /\ baseLine' = st.baseLine
    /\ headLine' = st.headLine
    /\ idx' = idx + 1
    /\ UNCHANGED <<patch, lines, ppc, result>>
    /\ UNCHANGED serverVars

\* src/index.js:93-98
VisitHeader ==
    /\ ppc = "loop" /\ idx <= Len(lines)
    /\ IsHeaderLine(lines[idx])
    /\ SetLoop(LineStep(LoopState, lines[idx]))

\* src/index.js:99-106
VisitLine ==
    /\ ppc = "loop" /\ idx <= Len(lines)
    /\ ~IsHeaderLine(lines[idx]) /\ IsPresent(currentHunk)
    /\ SetLoop(LineStep(LoopState, lines[idx]))

\* neither branch of src/index.js:93-106: a line before the first header
VisitDropped ==
    /\ ppc = "loop" /\ idx <= Len(lines)
    /\ ~IsHeaderLine(lines[idx]) /\ ~IsPresent(currentHunk)
    /\ SetLoop(LineStep(LoopState, lines[idx]))

\* src/index.js:109-110
Return ==
    /\ ppc = "loop" /\ idx > Len(lines)
    /\ hunks' = Finish(LoopState)
    /\ result' = Some(hunks')
    /\ ppc' = "done"
    /\ UNCHANGED <<patch, lines, idx, currentHunk, baseLine, headLine>>
    /\ UNCHANGED serverVars

NextParse == SplitPatch \/ VisitHeader \/ VisitLine \/ VisitDropped \/ Return


SpecParse == InitParse /\ [][NextParse]_vars

(***************************************************************************)
(* Properties of parsePatch (checked under SpecParse)                      *)
(***************************************************************************)
IsRemoved(line) == StartsWith(line, <<"-">>)
IsAdded(line)   == StartsWith(line, <<"+">>)
IsContext(line) == ~IsRemoved(line) /\ ~IsAdded(line)

Returned == ppc = "done"

\* the hunks built so far: the closed ones and the open one
BuiltHunks ==
    IF ppc # "done" /\ IsPresent(currentHunk) THEN Append(hunks, Val(currentHunk)) ELSE hunks

HunkMatches(h) == IsPresent(HeaderMatch(h.header))
BaseStart(h) == ParseInt(Val(HeaderMatch(h.header)).base)
HeadStart(h) == ParseInt(Val(HeaderMatch(h.header)).head)

\* how many of the first n records of a hunk have a content satisfying Kind
CountBefore(h, n, Kind(_)) == Cardinality({j \in 1..n : Kind(h.lines[j].content)})

Contents(h) == [j \in 1..Len(h.lines) |-> h.lines[j].content]

\* the text "header followed by the contents of the lines, joined by newlines"
Reconstructed(h) == JoinLines(<<h.header>> \o Contents(h))

\* C6: every LineRecord of every hunk, at any point of the parse: a '-' line has
\* baseLineNumber present and headLineNumber absent, a '+' line has headLineNumber
\* present and baseLineNumber absent, any other line (the empty one too) has both
\* present; none has both absent.
C6_PresenceByMarker ==
    \A k \in 1..Len(BuiltHunks) : \A j \in 1..Len(BuiltHunks[k].lines) :
        LET r == BuiltHunks[k].lines[j]
        IN  /\ IsRemoved(r.content) =>
                IsPresent(r.baseLineNumber) /\ ~IsPresent(r.headLineNumber)
            /\ IsAdded(r.content) =>
                IsPresent(r.headLineNumber) /\ ~IsPresent(r.baseLineNumber)
            /\ IsContext(r.content) =>
                IsPresent(r.baseLineNumber) /\ IsPresent(r.headLineNumber)
            /\ IsPresent(r.baseLineNumber) \/ IsPresent(r.headLineNumber)

\* parsePatch returned a hunk holding a removed, an added and an empty line
C6_Witness ==
    /\ Returned
    /\ \E k \in 1..Len(hunks) :
         /\ \E j \in 1..Len(hunks[k].lines) : IsRemoved(hunks[k].lines[j].content)
         /\ \E j \in 1..Len(hunks[k].lines) : IsAdded(hunks[k].lines[j].content)
         /\ \E j \in 1..Len(hunks[k].lines) : hunks[k].lines[j].content = <<>>

\* C7 as stated: in every returned hunk whose header matches the pattern, every
\* context line has both numbers and headLineNumber - baseLineNumber equals
\* headStart - baseStart, wherever the line stands in the hunk.
C7_Original ==
    Returned =>
      \A k \in 1..Len(hunks) : HunkMatches(hunks[k]) =>
        \A j \in 1..Len(hunks[k].lines) :
          LET r == hunks[k].lines[j]
          IN  IsContext(r.content) =>
                /\ IsPresent(r.baseLineNumber) /\ IsPresent(r.headLineNumber)
                /\ Val(r.headLineNumber) - Val(r.baseLineNumber)
                     = HeadStart(hunks[k]) - BaseStart(hunks[k])

\* C7 amended: in every returned hunk whose header matches the pattern, every
\* context line has both numbers and headLineNumber - baseLineNumber equals
\* headStart - baseStart plus the number of added lines minus the number of
\* removed lines that precede it in the hunk.
C7_ContextOffset ==
    Returned =>
      \A k \in 1..Len(hunks) : HunkMatches(hunks[k]) =>
        \A j \in 1..Len(hunks[k].lines) :
          LET r == hunks[k].lines[j]
          IN  IsContext(r.content) =>
                /\ IsPresent(r.baseLineNumber) /\ IsPresent(r.headLineNumber)
                /\ Val(r.headLineNumber) - Val(r.baseLineNumber)
                     = HeadStart(hunks[k]) - BaseStart(hunks[k])
                       + CountBefore(hunks[k], j - 1, IsAdded)
                       - CountBefore(hunks[k], j - 1, IsRemoved)

\* a returned hunk with a matching header and a context line that follows an
\* added line and no removed line
C7_Witness ==
    /\ Returned
    /\ \E k \in 1..Len(hunks) : \E j \in 1..Len(hunks[k].lines) :
         /\ HunkMatches(hunks[k])
         /\ IsContext(hunks[k].lines[j].content)
         /\ CountBefore(hunks[k], j - 1, IsAdded) > 0
         /\ CountBefore(hunks[k], j - 1, IsRemoved) = 0

\* the re-parse of hunk h yields exactly one hunk, with the LineRecords of h
ReparsesToItself(h) ==
    LET again == parsePatch(Reconstructed(h))
    IN  Len(again) = 1 /\ again[1].lines = h.lines

\* C8 as stated: for every returned hunk H, parsing H.header followed by the
\* contents of H.lines yields exactly one hunk whose LineRecords equal H.lines.
C8_Original ==
    Returned => \A k \in 1..Len(hunks) : ReparsesToItself(hunks[k])

\* C8 amended: the re-parse of a returned hunk H always yields exactly one hunk
\* with the header and the line contents of H; its LineRecords equal H.lines
\* when H's header matches the pattern or H is the first hunk of the output.
C8_ReparseMatching ==
    Returned =>
      \A k \in 1..Len(hunks) :
        LET again == parsePatch(Reconstructed(hunks[k]))
        IN  /\ Len(again) = 1
            /\ again[1].header = hunks[k].header
            /\ Contents(again[1]) = Contents(hunks[k])
            /\ (HunkMatches(hunks[k]) \/ k = 1) => again[1].lines = hunks[k].lines

\* a hunk with a matching header and lines, returned after a hunk with lines
C8_Witness ==
    /\ Returned
    /\ Len(hunks) >= 2
    /\ hunks[1].lines # <<>>
    /\ HunkMatches(hunks[2])
    /\ hunks[2].lines # <<>>

\* C9: in every hunk whose header matches the pattern, at any point of the parse,
\* a removed or context line carries baseStart plus the number of removed and
\* context lines before it, and an added or context line carries headStart plus
\* the number of added and context lines before it: added lines do not advance
\* the base numbering and removed lines do not advance the head numbering.
NotAdded(line)   == ~IsAdded(line)
NotRemoved(line) == ~IsRemoved(line)

C9_Numbering ==
    \A k \in 1..Len(BuiltHunks) : HunkMatches(BuiltHunks[k]) =>
      \A j \in 1..Len(BuiltHunks[k].lines) :
        LET h == BuiltHunks[k]
            r == h.lines[j]
        IN  /\ NotAdded(r.content) =>
                r.baseLineNumber = Some(BaseStart(h) + CountBefore(h, j - 1, NotAdded))
            /\ NotRemoved(r.content) =>
                r.headLineNumber = Some(HeadStart(h) + CountBefore(h, j - 1, NotRemoved))

\* a returned hunk with a matching header, base and head starts that differ, and
\* a removed, an added and a context line
C9_Witness ==
    /\ Returned
    /\ \E k \in 1..Len(hunks) :
         /\ HunkMatches(hunks[k])
         /\ BaseStart(hunks[k]) # HeadStart(hunks[k])
         /\ \E j \in 1..Len(hunks[k].lines) : IsRemoved(hunks[k].lines[j].content)
         /\ \E j \in 1..Len(hunks[k].lines) : IsAdded(hunks[k].lines[j].content)
         /\ \E j \in 1..Len(hunks[k].lines) : IsContext(hunks[k].lines[j].content)

\* positions, in order, of the lines of ls that start with "@@"
RECURSIVE HeaderPositions(_, _)
HeaderPositions(ls, i) ==
    IF i > Len(ls) THEN <<>>
    ELSE (IF StartsWith(ls[i], <<"@", "@">>) THEN <<i>> ELSE <<>>)
         \o HeaderPositions(ls, i + 1)

\* C10: the returned sequence has one hunk per input line starting with "@@",
\* in source order, with that raw line as header and, as contents, exactly the
\* lines between that header and the next one (or the end of input), in order
\* and unchanged; as long as no header has been seen no hunk exists and both
\* counters stay 0.
C10_Structure ==
    /\ Returned =>
         LET src == Split(patch)
             pos == HeaderPositions(src, 1)
         IN  /\ Len(hunks) = Len(pos)
             /\ \A k \in 1..Len(pos) :
                  LET last == IF k < Len(pos) THEN pos[k + 1] - 1 ELSE Len(src)
                  IN  /\ hunks[k].header = src[pos[k]]
                      /\ Contents(hunks[k]) = SubSeq(src, pos[k] + 1, last)
    /\ (ppc = "loop" /\ ~IsPresent(currentHunk)) =>
         hunks = <<>> /\ baseLine = 0 /\ headLine = 0

\* parsePatch returned two hunks or more, the last one with lines, from an input
\* whose first line is not a header
C10_Witness ==
    /\ Returned
    /\ Len(hunks) >= 2
    /\ hunks[Len(hunks)].lines # <<>>
    /\ ~IsHeaderLine(lines[1])

\* the values of baseLine and headLine once the header of hunk k of hs has been
\* visited, if a header that does not match leaves them as they are: those of
\* the header when it matches, else those at the end of hunk k - 1, else 0 and 0
RECURSIVE ExpectedStart(_, _)
ExpectedStart(hs, k) ==
    IF HunkMatches(hs[k]) THEN [base |-> BaseStart(hs[k]), head |-> HeadStart(hs[k])]
    ELSE IF k = 1 THEN [base |-> 0, head |-> 0]
    ELSE LET prev == ExpectedStart(hs, k - 1)
             n    == Len(hs[k - 1].lines)
         IN  [base |-> prev.base + CountBefore(hs[k - 1], n, NotAdded),
              head |-> prev.head + CountBefore(hs[k - 1], n, NotRemoved)]

\* C16: every visited "@@" line that does not match the pattern has closed the
\* open hunk and opened a hunk of its own with the raw line as header, and the
\* lines of that hunk are numbered on from the values the counters had at the
\* end of the previous hunk (from 0 and 0 when it is the first header); while
\* such a hunk is open the counters are those values advanced by its lines.
C16_MalformedHeader ==
    /\ ppc \in {"loop", "done"} =>
         LET pos == HeaderPositions(SubSeq(lines, 1, idx - 1), 1)
         IN  /\ Len(BuiltHunks) = Len(pos)
             /\ \A k \in 1..Len(pos) :
                  ~IsPresent(HeaderMatch(lines[pos[k]])) =>
                      BuiltHunks[k].header = lines[pos[k]]
    /\ \A k \in 1..Len(BuiltHunks) : ~HunkMatches(BuiltHunks[k]) =>
         LET h     == BuiltHunks[k]
             start == ExpectedStart(BuiltHunks, k)
         IN  /\ \A j \in 1..Len(h.lines) :
                  /\ NotAdded(h.lines[j].content) =>
                       h.lines[j].baseLineNumber
                         = Some(start.base + CountBefore(h, j - 1, NotAdded))
                  /\ NotRemoved(h.lines[j].content) =>
                       h.lines[j].headLineNumber
                         = Some(start.head + CountBefore(h, j - 1, NotRemoved))
             /\ (ppc = "loop" /\ k = Len(BuiltHunks)) =>
                  /\ baseLine = start.base + CountBefore(h, Len(h.lines), NotAdded)
                  /\ headLine = start.head + CountBefore(h, Len(h.lines), NotRemoved)

\* parsePatch returned a hunk with lines whose header does not match, after a
\* hunk with lines whose header matches
C16_Witness ==
    /\ Returned
    /\ \E k \in 2..Len(hunks) :
         /\ HunkMatches(hunks[k - 1]) /\ hunks[k - 1].lines # <<>>
         /\ ~HunkMatches(hunks[k]) /\ hunks[k].lines # <<>>

====
